---- MODULE Spec2Model ----
(***************************************************************************)
(* A model of the weather dashboard: the search-history store              *)
(* (js/storage.js), the forecast bucketizer (js/utils.js), the weather     *)
(* client (js/api.js) and the autocomplete flow of the controller          *)
(* (js/app.js).                                                            *)
(***************************************************************************)
EXTENDS Integers, Sequences, FiniteSets, Bags, TLC

VARIABLES
    localStorage,   \* the browser key-value store: key -> stored text
    storeFault,     \* the fault the key-value store shows on access
    lastCall,       \* the store operation that ran last, its argument and the
                    \* history that was persisted before it
    ret,            \* the value the last store operation returned
    threw,          \* the last store operation threw to its caller
    recent          \* the locations recorded by the latest run of persisted
                    \* saveToHistory calls with no other operation in between,
                    \* cut to its longest suffix of pairwise different cities

VARIABLES
    timezone,       \* the browser's offset from UTC, in hours
    forecastList,   \* the forecast samples received from the provider, in order
    dailyData,      \* what filterDailyForecast returned for forecastList
    filtered        \* filterDailyForecast has run

VARIABLES
    legs,           \* fetchCurrentWeather and fetchForecast of the running
                    \* fetchWeatherData call: where each stands, the response
                    \* it got, the error it threw
    outcome,        \* the promise fetchWeatherData returned to its caller
    settledFirst    \* the leg of the running call that was rejected first

VARIABLES
    searchInput,    \* the text in the search field
    timers,         \* the pending timeouts of the page: id and ticks left
    timeoutId,      \* timeoutId of the debounced input listener, 0 when unset
    quiet,          \* ticks since the last input event, counted up to the delay
    inputsSinceRun, \* input events since handleAutocomplete ran last, up to 2
    lastRun,        \* quiet and inputsSinceRun as handleAutocomplete ran last
    lastSuggest,    \* the fetchCitySuggestions call that returned last: how its
                    \* request ended, what it gave its caller, what the caller
                    \* did with it
    runs,           \* number of handleAutocomplete runs so far
    suggestReqs,    \* the fetchCitySuggestions calls awaiting their response
    lastIssued,     \* the run that issued the latest suggestion request
    displayed,      \* the suggestions renderAutocomplete showed last
    latestAnswer    \* what fetchCitySuggestions returned to the run that
                    \* issued the latest request, <<>> until it returns

VARIABLES
    apiKey,         \* API_KEY of config.js
    started,        \* init has run: the event listeners are set
    currentUnit,    \* app.js: currentUnit
    currentCity,    \* app.js: currentCity, "" before the first loaded city
    currentWeatherData, \* app.js: currentWeatherData, the snapshot fetched last
    view,           \* what the page shows: the loading signal, the current
                    \* conditions, the forecast grid, the recent locations,
                    \* the unit button
    loads,          \* the bag of loadWeather calls awaiting fetchWeatherData
    lastEvent       \* the handler or continuation that ran last: what it
                    \* called, what it alerted, the session it found

VARIABLES
    rounding        \* the roundNumber call under study: its arguments (the
                    \* value in hundredths), and its result once it returned

historyVars == <<localStorage, storeFault, lastCall, ret, threw, recent>>

forecastVars == <<timezone, forecastList, dailyData, filtered>>

fetchVars == <<legs, outcome, settledFirst>>

autoVars ==
    <<searchInput, timers, timeoutId, quiet, inputsSinceRun, lastRun, lastSuggest,
      runs, suggestReqs, lastIssued, displayed, latestAnswer>>

appVars ==
    <<apiKey, started, currentUnit, currentCity, currentWeatherData, view, loads,
      lastEvent>>

utilVars == <<rounding>>

\* What a step of one part of the program leaves alone.
notHistoryVars == <<forecastVars, fetchVars, autoVars, appVars, utilVars>>
notForecastVars == <<historyVars, fetchVars, autoVars, appVars, utilVars>>
notFetchVars == <<historyVars, forecastVars, autoVars, appVars, utilVars>>
notAutoVars == <<historyVars, forecastVars, fetchVars, appVars, utilVars>>
notUtilVars == <<historyVars, forecastVars, fetchVars, autoVars, appVars>>

\* What the handlers of app.js leave alone: they work on the session, the
\* page, the key-value store and the search field.
notAppVars ==
    <<storeFault, lastCall, ret, threw, recent, forecastVars, fetchVars,
      timers, timeoutId, quiet, inputsSinceRun, lastRun, lastSuggest, runs,
      suggestReqs, lastIssued, displayed, latestAnswer, utilVars>>

vars == <<historyVars, forecastVars, fetchVars, autoVars, appVars, utilVars>>

-----------------------------------------------------------------------------
(* Bounds of the model. *)

\* Number of different city names (letters) the user can search for.
NumLetters == 6

\* Number of samples in a forecast list.
MaxSamples == 7

\* Number of handleAutocomplete runs.
MaxRuns == 4

\* Number of loadWeather calls awaiting their fetch at the same time.
MaxLoads == 2

\* The largest value roundNumber is called with, in hundredths: -3.00 to 3.00.
MaxHundredths == 300

-----------------------------------------------------------------------------
(* Strings.  A string is a sequence of character codes (ASCII).            *)

\* The upper-case letters the city names are spelled with: 'A', 'B', ...
UpperCodes == 65..(64 + NumLetters)

\* The one letter the inputs also spell in lower case: 'a'.
LowerCodes == {97}

EmptyString == <<>>

\* The location labels the operations are called with.
Locations == {<<c>> : c \in UpperCodes \cup LowerCodes}

\* The text as it was typed.
untrimmed(s) == s

\* String.prototype.trim, for the space character (32).
RECURSIVE trimStart(_)
trimStart(s) == IF s # <<>> /\ Head(s) = 32 THEN trimStart(Tail(s)) ELSE s

RECURSIVE trimEnd(_)
trimEnd(s) ==
    IF s # <<>> /\ s[Len(s)] = 32 THEN trimEnd(SubSeq(s, 1, Len(s) - 1)) ELSE s

trim(s) == trimEnd(trimStart(s))

\* String.prototype.toLowerCase: 'A'..'Z' go to 'a'..'z', the rest stays.
toLowerCase(s) == [i \in 1..Len(s) |-> IF s[i] \in 65..90 THEN s[i] + 32 ELSE s[i]]

-----------------------------------------------------------------------------------------------------------------------------------------------------
(* config.js *)

maxHistoryItems == 5

\* DEFAULT_SETTINGS.unit
DefaultUnit == "metric"

SEARCH_HISTORY == "weather_search_history"

PREFERRED_UNIT == "weather_preferred_unit"

THEME == "weather_theme"

STORAGE_KEYS == {SEARCH_HISTORY, PREFERRED_UNIT, THEME}

-----------------------------------------------------------------------------
(* The key-value store (window.localStorage) and JSON.  A stored text is   *)
(* a record: json tells what JSON.parse makes of it, items holds the       *)
(* elements of a JSON array or the words of a text that is no JSON.        *)

\* What getItem gives for a key that is not there.
Null == [json |-> "null", items |-> <<>>]

\* JSON.stringify of an array of strings: the text of a JSON array.
JSONstringify(list) == [json |-> "array", items |-> list]

\* A text that is no JSON, such as metric or dark.
PlainText(word) == [json |-> "garbage", items |-> <<word>>]

\* The text of a JSON value that is no array: {}.
ObjectText == [json |-> "object", items |-> <<>>]

\* An element of a stored JSON array that is a number, not a string.
Number == <<-1>>

\* typeof item === 'string'
IsString(item) == item # Number

\* JSON.parse throws on a text that is no JSON.
JSONparseThrows(text) == text.json = "garbage"

\* JSON.parse of a JSON text.
JSONparse(text) == text.items

\* Array.isArray of a parsed value.
IsArray(text) == text.json = "array"

\* The faults the key-value store can show: none, every write throws (quota),
\* every removal throws, every access throws (storage disabled).
StoreFaults == {"none", "write", "remove", "all"}

GetItemThrows(fault) == fault = "all"
SetItemThrows(fault) == fault \in {"write", "all"}
RemoveItemThrows(fault) == fault \in {"remove", "all"}

-----------------------------------------------------------------------------
(* js/storage.js.  Every operation maps the store, the fault and its       *)
(* arguments to the store it leaves, the value it returns and whether it   *)
(* threw instead of returning.                                             *)

Result(ls, value) == [ls |-> ls, ret |-> value, threw |-> FALSE]

\* An exception leaves the block it was thrown in.
Throw(ls) == [ls |-> ls, ret |-> <<>>, threw |-> TRUE]

uncaught(block, handler) == block

\* try { block } catch (error) { handler }
catch(block, handler) == IF block.threw THEN handler ELSE block

\* The try block of getHistory.
tryGetHistory(ls, fault) ==
    IF GetItemThrows(fault) THEN Throw(ls)
    ELSE LET stored == ls[SEARCH_HISTORY] IN
         IF stored = Null THEN Result(ls, <<>>)
         ELSE IF JSONparseThrows(stored) THEN Throw(ls)
         ELSE IF ~IsArray(stored)
              THEN IF RemoveItemThrows(fault) THEN Throw(ls)
                   ELSE Result([ls EXCEPT ![SEARCH_HISTORY] = Null], <<>>)
         ELSE Result(ls, JSONparse(stored))

getHistory(ls, fault) == catch(tryGetHistory(ls, fault), Result(ls, <<>>))

\* No entry is taken for the city.
SameCityNever(item, city) == FALSE

SameCityExact(item, city) == item = city

\* item.toLowerCase() !== city.toLowerCase(), negated
SameCity(item, city) == toLowerCase(item) = toLowerCase(city)

\* history.filter(item => item.toLowerCase() !== city.toLowerCase())
RECURSIVE filterOut(_, _)
filterOut(history, city) ==
    IF history = <<>> THEN <<>>
    ELSE IF SameCity(Head(history), city) THEN filterOut(Tail(history), city)
    ELSE <<Head(history)>> \o filterOut(Tail(history), city)

\* item.toLowerCase is not a function: the filter throws a TypeError on an
\* item that is no string.
filterThrows(history) == \E i \in 1..Len(history) : ~IsString(history[i])

push(history, city) == history \o <<city>>

\* history.unshift(city)
unshift(history, city) == <<city>> \o history

sliceOneMore(history) ==
    IF Len(history) > maxHistoryItems + 1
    THEN SubSeq(history, 1, maxHistoryItems + 1)
    ELSE history

\* if (history.length > max) history = history.slice(0, max)
slice(history) ==
    IF Len(history) > maxHistoryItems
    THEN SubSeq(history, 1, maxHistoryItems)
    ELSE history

\* localStorage.setItem(key, text)
setItem(ls, fault, key, text, value) ==
    IF SetItemThrows(fault) THEN Throw(ls)
    ELSE Result([ls EXCEPT ![key] = text], value)

\* The try block of saveToHistory.
trySaveToHistory(ls, fault, city) ==
    LET got == getHistory(ls, fault) IN
    IF filterThrows(got.ret) THEN Throw(got.ls)
    ELSE LET history == slice(unshift(filterOut(got.ret, city), city))
         IN  setItem(got.ls, fault, SEARCH_HISTORY, JSONstringify(history), history)

saveToHistory(ls, fault, city) ==
    IF city = EmptyString THEN getHistory(ls, fault)
    ELSE LET block == trySaveToHistory(ls, fault, city)
         IN  catch(block, getHistory(block.ls, fault))

\* The try block of removeFromHistory.
tryRemoveFromHistory(ls, fault, city) ==
    LET got == getHistory(ls, fault) IN
    IF filterThrows(got.ret) THEN Throw(got.ls)
    ELSE LET history == filterOut(got.ret, city)
         IN  setItem(got.ls, fault, SEARCH_HISTORY, JSONstringify(history), history)

removeFromHistory(ls, fault, city) ==
    IF city = EmptyString THEN getHistory(ls, fault)
    ELSE LET block == tryRemoveFromHistory(ls, fault, city)
         IN  catch(block, getHistory(block.ls, fault))

\* The last entry is dropped, whatever the index.
dropLast(history, index) == SubSeq(history, 1, Len(history) - 1)

\* history.splice(index, 1)
splice(history, index) ==
    SubSeq(history, 1, index) \o SubSeq(history, index + 2, Len(history))

removeFirstWhateverIndex(ls, fault, index) ==
    LET got == getHistory(ls, fault) IN
    LET history == splice(got.ret, 0)
    IN  setItem(got.ls, fault, SEARCH_HISTORY, JSONstringify(history), history)

\* The try block of removeFromHistoryByIndex; index is 0-based, as in the
\* source.
tryRemoveFromHistoryByIndex(ls, fault, index) ==
    LET got == getHistory(ls, fault) IN
    IF index < 0 \/ index >= Len(got.ret) THEN got
    ELSE LET history == splice(got.ret, index)
         IN  setItem(got.ls, fault, SEARCH_HISTORY, JSONstringify(history), history)

removeFromHistoryByIndex(ls, fault, index) ==
    LET block == tryRemoveFromHistoryByIndex(ls, fault, index)
    IN  catch(block, getHistory(block.ls, fault))

\* localStorage.removeItem(key)
removeItem(ls, fault, key, value) ==
    IF RemoveItemThrows(fault) THEN Throw(ls)
    ELSE Result([ls EXCEPT ![key] = Null], value)

clearHistory(ls, fault) ==
    catch(removeItem(ls, fault, SEARCH_HISTORY, <<>>), Result(ls, <<>>))

Units == {"metric", "imperial"}

\* What savePreferredUnit and saveThemePreference return: undefined.
Undefined == <<>>

\* The unit is validated and not written.
validateUnitOnly(ls, fault, unit) == Result(ls, Undefined)

savePreferredUnit(ls, fault, unit) ==
    IF unit \notin Units THEN Result(ls, Undefined)
    ELSE catch(setItem(ls, fault, PREFERRED_UNIT, PlainText(unit), Undefined),
               Result(ls, Undefined))

defaultWhateverStored(ls, fault) == Result(ls, DefaultUnit)

\* The try block of getPreferredUnit.
tryGetPreferredUnit(ls, fault) ==
    IF GetItemThrows(fault) THEN Throw(ls)
    ELSE LET unit == ls[PREFERRED_UNIT] IN
         IF unit = PlainText("metric") THEN Result(ls, "metric")
         ELSE IF unit = PlainText("imperial") THEN Result(ls, "imperial")
         ELSE Result(ls, DefaultUnit)

getPreferredUnit(ls, fault) ==
    catch(tryGetPreferredUnit(ls, fault), Result(ls, DefaultUnit))

Themes == {"light", "dark"}

saveThemePreference(ls, fault, theme) ==
    IF theme \notin Themes THEN Result(ls, Undefined)
    ELSE catch(setItem(ls, fault, THEME, PlainText(theme), Undefined),
               Result(ls, Undefined))

\* The try block of getThemePreference.
tryGetThemePreference(ls, fault) ==
    IF GetItemThrows(fault) THEN Throw(ls)
    ELSE LET theme == ls[THEME] IN
         IF theme = PlainText("light") THEN Result(ls, "light")
         ELSE IF theme = PlainText("dark") THEN Result(ls, "dark")
         ELSE Result(ls, "light")

getThemePreference(ls, fault) ==
    catch(tryGetThemePreference(ls, fault), Result(ls, "light"))

\* isStorageAvailable of storage.js and isLocalStorageAvailable of utils.js:
\* a test key is written and removed again.
isLocalStorageAvailable(fault) == ~SetItemThrows(fault) /\ ~RemoveItemThrows(fault)

-----
(* The store operations as steps of the program.                           *)

\* The history a reader of the working store sees.
Persisted == getHistory(localStorage, "none").ret

Call(op, arg) == [op |-> op, arg |-> arg, before |-> Persisted]

\* Position of the first entry of list that names city, 0 when none does.
RECURSIVE IndexOfCity(_, _, _)
IndexOfCity(list, city, i) ==
    IF i > Len(list) THEN 0
    ELSE IF toLowerCase(list[i]) = toLowerCase(city) THEN i
    ELSE IndexOfCity(list, city, i + 1)

\* The run of recorded locations after one more is persisted.
Recorded(run, city) ==
    LET k == IndexOfCity(run, city, 1)
        kept == SubSeq(run, k + 1, Len(run)) \o <<city>>
    IN  IF Len(kept) > maxHistoryItems + 1
        THEN SubSeq(kept, Len(kept) - maxHistoryItems, Len(kept))
        ELSE kept

HistoryInit ==
    /\ localStorage = [k \in STORAGE_KEYS |-> Null]
    /\ storeFault = "none"
    /\ lastCall = [op |-> "none", arg |-> EmptyString, before |-> <<>>]
    /\ ret = <<>>
    /\ threw = FALSE
    /\ recent = <<>>

SaveToHistory ==
    \E city \in Locations \cup {EmptyString} :
        \E r \in {saveToHistory(localStorage, storeFault, city)} :
        /\ localStorage' = r.ls
        /\ ret' = r.ret
        /\ threw' = r.threw
        /\ lastCall' = Call("saveToHistory", city)
        /\ recent' = IF city # EmptyString /\ ~SetItemThrows(storeFault)
                     THEN Recorded(recent, city) ELSE <<>>
        /\ UNCHANGED <<storeFault, notHistoryVars>>

RemoveFromHistory ==
    \E city \in Locations \cup {EmptyString} :
        \E r \in {removeFromHistory(localStorage, storeFault, city)} :
        /\ localStorage' = r.ls
        /\ ret' = r.ret
        /\ threw' = r.threw
        /\ lastCall' = Call("removeFromHistory", city)
        /\ recent' = <<>>
        /\ UNCHANGED <<storeFault, notHistoryVars>>

RemoveFromHistoryByIndex ==
    \E index \in -1..maxHistoryItems :
        \E r \in {removeFromHistoryByIndex(localStorage, storeFault, index)} :
        /\ localStorage' = r.ls
        /\ ret' = r.ret
        /\ threw' = r.threw
        /\ lastCall' = Call("removeFromHistoryByIndex", index)
        /\ recent' = <<>>
        /\ UNCHANGED <<storeFault, notHistoryVars>>

ClearHistory ==
    \E r \in {clearHistory(localStorage, storeFault)} :
    /\ localStorage' = r.ls
    /\ ret' = r.ret
    /\ threw' = r.threw
    /\ lastCall' = Call("clearHistory", EmptyString)
    /\ recent' = <<>>
    /\ UNCHANGED <<storeFault, notHistoryVars>>

HistoryNext ==
    \/ SaveToHistory
    \/ RemoveFromHistory
    \/ RemoveFromHistoryByIndex
    \/ ClearHistory

-----------------------------------------------------------------------------
(* The store operations on a key-value store that may fail and may hold    *)
(* values the application did not write.                                   *)

\* The cities the operations are called with here: "A", "a", "B".
StoreCities == {<<65>>, <<97>>, <<66>>}

\* What the history key can hold when the page is opened: nothing, a text
\* that is no JSON, a JSON object, arrays of strings (one with "A" and "a",
\* as an earlier version or another page may have left it), arrays with a
\* number.
StoredHistories ==
    {Null, PlainText("oops"), ObjectText}
        \cup {JSONstringify(list) :
                list \in {<<>>, <<<<65>>>>, <<<<66>>, <<97>>>>,
                          <<<<65>>, <<66>>, <<97>>>>,
                          <<Number>>, <<<<65>>, Number>>}}

\* What the unit key can hold when the page is opened.
StoredUnits == {Null, PlainText("metric"), PlainText("imperial"), PlainText("kelvin")}

\* What the theme key can hold when the page is opened.
StoredThemes == {Null, PlainText("dark"), PlainText("blue")}

StoreInit ==
    /\ localStorage \in [STORAGE_KEYS -> StoredHistories \cup StoredUnits \cup StoredThemes]
    /\ localStorage[SEARCH_HISTORY] \in StoredHistories
    /\ localStorage[PREFERRED_UNIT] \in StoredUnits
    /\ localStorage[THEME] \in StoredThemes
    /\ storeFault \in StoreFaults
    /\ lastCall = [op |-> "none", arg |-> EmptyString, before |-> <<>>]
    /\ ret = <<>>
    /\ threw = FALSE
    /\ recent = <<>>

\* A caller runs operation op on argument arg and gets r.
Called(op, arg, r) ==
    /\ localStorage' = r.ls
    /\ ret' = r.ret
    /\ threw' = r.threw
    /\ lastCall' = Call(op, arg)
    /\ UNCHANGED <<storeFault, recent, notHistoryVars>>

CallGetHistory ==
    Called("getHistory", EmptyString, getHistory(localStorage, storeFault))

CallSaveToHistory ==
    \E city \in StoreCities \cup {EmptyString} :
        Called("saveToHistory", city, saveToHistory(localStorage, storeFault, city))

CallRemoveFromHistory ==
    \E city \in StoreCities \cup {EmptyString} :
        Called("removeFromHistory", city,
               removeFromHistory(localStorage, storeFault, city))

CallRemoveFromHistoryByIndex ==
    \E index \in -1..2 :
        Called("removeFromHistoryByIndex", index,
               removeFromHistoryByIndex(localStorage, storeFault, index))

CallClearHistory ==
    Called("clearHistory", EmptyString, clearHistory(localStorage, storeFault))

CallSavePreferredUnit ==
    \E unit \in Units \cup {"kelvin"} :
        Called("savePreferredUnit", unit,
               savePreferredUnit(localStorage, storeFault, unit))

CallGetPreferredUnit ==
    Called("getPreferredUnit", EmptyString, getPreferredUnit(localStorage, storeFault))

CallSaveThemePreference ==
    \E theme \in Themes \cup {"blue"} :
        Called("saveThemePreference", theme,
               saveThemePreference(localStorage, storeFault, theme))

CallGetThemePreference ==
    Called("getThemePreference", EmptyString,
           getThemePreference(localStorage, storeFault))

StoreNext ==
    \/ CallGetHistory
    \/ CallSaveToHistory
    \/ CallRemoveFromHistory
    \/ CallRemoveFromHistoryByIndex
    \/ CallClearHistory
    \/ CallSavePreferredUnit
    \/ CallGetPreferredUnit
    \/ CallSaveThemePreference
    \/ CallGetThemePreference

-----------------------------------------------------------------------------
(* js/utils.js: filterDailyForecast.  A sample is a record with the field  *)
(* dt, the epoch time in seconds.                                          *)

\* The most days the result holds.
maxDays == 5

\* The hours of the noon window, and the first hour taken outside it.
noonFrom == 11
noonTo == 15
dayFrom == 6

\* new Date(item.dt * 1000).toISOString().split('T')[0]: the UTC date, as the
\* number of the day since the epoch.
dateStringOf(item) == item.dt \div 86400

\* new Date(item.dt * 1000).getHours(): the hour of the day in local time.
getHours(item, tz) == ((item.dt + tz * 3600) \div 3600) % 24

Passed(daily, dates) == [dailyData |-> daily, processedDates |-> dates]

\* The two branches of the first loop that push the item:
\* hour >= 11 && hour <= 15, else hour >= 6 (the date is not processed yet).
takenInFirstLoop(hour) ==
    \/ hour >= noonFrom /\ hour <= noonTo
    \/ hour >= dayFrom

\* The first loop, from the i-th item on.
RECURSIVE firstLoop(_, _, _, _, _)
firstLoop(list, tz, i, daily, dates) ==
    IF i > Len(list) THEN Passed(daily, dates)
    ELSE LET item == list[i]
             dateString == dateStringOf(item)
             hour == getHours(item, tz)
         IN  IF dateString \in dates THEN firstLoop(list, tz, i + 1, daily, dates)
             ELSE IF takenInFirstLoop(hour)
                  THEN IF Len(daily) + 1 >= maxDays
                       THEN Passed(Append(daily, item), dates \cup {dateString})
                       ELSE firstLoop(list, tz, i + 1, Append(daily, item),
                                      dates \cup {dateString})
             ELSE IF Len(daily) >= maxDays THEN Passed(daily, dates)
             ELSE firstLoop(list, tz, i + 1, daily, dates)

\* The second loop, from the i-th item on: the first item of every date the
\* first loop left out.
RECURSIVE secondLoop(_, _, _, _)
secondLoop(list, i, daily, dates) ==
    IF i > Len(list) THEN Passed(daily, dates)
    ELSE LET item == list[i]
             dateString == dateStringOf(item)
         IN  IF dateString \in dates THEN secondLoop(list, i + 1, daily, dates)
             ELSE IF Len(daily) + 1 >= maxDays
                  THEN Passed(Append(daily, item), dates \cup {dateString})
                  ELSE secondLoop(list, i + 1, Append(daily, item),
                                  dates \cup {dateString})

\* dailyData.slice(0, 5)
sliceDays(daily) ==
    IF Len(daily) > maxDays THEN SubSeq(daily, 1, maxDays) ELSE daily

filterDailyForecast(list, tz) ==
    LET first == firstLoop(list, tz, 1, <<>>, {})
        second == IF Len(first.dailyData) < maxDays /\ Len(list) > 0
                  THEN secondLoop(list, 1, first.dailyData, first.processedDates)
                  ELSE first
    IN  sliceDays(second.dailyData)

\* The browser's time zones of the model: New York, UTC, Tokyo.
Timezones == {-5, 0, 9}

\* The hour of the first sample, counted from the epoch: 00:00, 03:00, 09:00
\* and 15:00 UTC of the second day.
FirstSampleHours == {24, 27, 33, 39}

\* The hours between one sample and the next.
SampleGapHours == {3, 6, 24}

Sample(hours) == [dt |-> hours * 3600]

ForecastInit ==
    /\ timezone \in Timezones
    /\ forecastList = <<>>
    /\ dailyData = <<>>
    /\ filtered = FALSE

\* The provider's list grows by one sample, later than the ones before.
ReceiveSample ==
    /\ ~filtered
    /\ Len(forecastList) < MaxSamples
    /\ \E next \in IF forecastList = <<>>
                   THEN {Sample(h) : h \in FirstSampleHours}
                   ELSE {[dt |-> forecastList[Len(forecastList)].dt + g * 3600] :
                            g \in SampleGapHours} :
          forecastList' = Append(forecastList, next)
    /\ UNCHANGED <<timezone, dailyData, filtered, notForecastVars>>

FilterDailyForecast ==
    /\ ~filtered
    /\ dailyData' = filterDailyForecast(forecastList, timezone)
    /\ filtered' = TRUE
    /\ UNCHANGED <<timezone, forecastList, notForecastVars>>

ForecastNext ==
    \/ ReceiveSample
    \/ FilterDailyForecast

-----------------------------------------------------------------------------
(* js/api.js: fetchWeatherData and its two legs, handleAPIError.           *)

\* config.js: ERROR_MESSAGES, by key.
ERROR_MESSAGES == {"NETWORK_ERROR", "CITY_NOT_FOUND", "API_ERROR",
                   "INVALID_API_KEY", "RATE_LIMIT"}

\* The HTTP statuses of the provider's responses.
HttpStatuses == {200, 400, 401, 404, 429, 500, 503}

\* response.ok
ResponseOk(status) == status \in 200..299

\* The message field of the JSON body of an error response: "" when the body
\* is no JSON or carries no message.
BodyMessages == {"", "provider message"}

\* What fetch rejects with when the request does not reach the provider.
FetchFailed == [message |-> "Failed to fetch"]

\* What response.json() rejects with on a body that is no JSON.
SyntaxError == [message |-> "Unexpected token"]

\* The switch of handleAPIError.
messageOfStatus(status) ==
    CASE status = 400 -> "CITY_NOT_FOUND"
      [] status = 401 -> "INVALID_API_KEY"
      [] status = 404 -> "CITY_NOT_FOUND"
      [] status = 429 -> "RATE_LIMIT"
      [] status = 500 -> "API_ERROR"
      [] OTHER -> "API_ERROR"

\* handleAPIError(response): the Error it returns, once response.json() settled.
handleAPIError(status, bodyMessage) ==
    [message |-> IF bodyMessage # "" THEN bodyMessage ELSE messageOfStatus(status)]

Legs == {"current", "forecast"}

NoError == [message |-> ""]

Leg(at, status, body, error) ==
    [at |-> at, status |-> status, body |-> body, error |-> error]

IdleLeg == Leg("idle", 0, "", NoError)

LegSettled(leg) == leg.at \in {"resolved", "rejected"}

Promise(state, error) == [state |-> state, error |-> error]

\* Promise.all of the two legs: rejected with the error of the first leg that
\* is rejected, resolved once both legs are resolved.
promiseAll(ls, first) ==
    IF first # "none" THEN Promise("rejected", ls[first].error)
    ELSE IF \A l \in Legs : ls[l].at = "resolved" THEN Promise("resolved", NoError)
    ELSE Promise("pending", NoError)

\* The leg that was rejected first, after a step that took the legs to ls.
firstRejected(ls, first) ==
    IF first # "none" THEN first
    ELSE IF \E l \in Legs : ls[l].at = "rejected"
         THEN CHOOSE l \in Legs : ls[l].at = "rejected"
    ELSE "none"

FetchInit ==
    /\ legs = [l \in Legs |-> IdleLeg]
    /\ outcome = Promise("idle", NoError)
    /\ settledFirst = "none"

\* fetchWeatherData(city, unit): both legs run up to their await fetch(url).
FetchWeatherData ==
    /\ \A l \in Legs : legs[l].at = "idle" \/ LegSettled(legs[l])
    /\ legs' = [l \in Legs |-> Leg("inflight", 0, "", NoError)]
    /\ outcome' = Promise("pending", NoError)
    /\ settledFirst' = "none"
    /\ UNCHANGED notFetchVars

\* One step of a leg; the caller's promise follows in the same turn.
LegStep(l, next) ==
    /\ legs' = [legs EXCEPT ![l] = next]
    /\ settledFirst' = firstRejected(legs', settledFirst)
    /\ outcome' = promiseAll(legs', settledFirst')
    /\ UNCHANGED notFetchVars

\* await fetch(url) rejects: the request did not reach the provider.
FetchRejects ==
    \E l \in Legs :
        /\ legs[l].at = "inflight"
        /\ LegStep(l, Leg("rejected", 0, "", FetchFailed))

\* await fetch(url) resolves with a response: the leg awaits response.json(),
\* of the data or, inside handleAPIError, of the error body.
ResponseArrives ==
    \E l \in Legs, status \in HttpStatuses, body \in BodyMessages :
        /\ legs[l].at = "inflight"
        /\ ResponseOk(status) => body = ""
        /\ LegStep(l, Leg(IF ResponseOk(status) THEN "parsing" ELSE "reading",
                          status, body, NoError))

\* await response.json() resolves with the data: the leg returns it.
DataParsed ==
    \E l \in Legs :
        /\ legs[l].at = "parsing"
        /\ LegStep(l, [legs[l] EXCEPT !.at = "resolved"])

\* await response.json() rejects: the body of the success response is no JSON.
DataUnparsable ==
    \E l \in Legs :
        /\ legs[l].at = "parsing"
        /\ LegStep(l, [legs[l] EXCEPT !.at = "rejected", !.error = SyntaxError])

\* handleAPIError has read the error body: the leg throws the Error it returns.
ErrorThrown ==
    \E l \in Legs :
        /\ legs[l].at = "reading"
        /\ LegStep(l, [legs[l] EXCEPT
                          !.at = "rejected",
                          !.error = handleAPIError(legs[l].status, legs[l].body)])

FetchNext ==
    \/ FetchWeatherData
    \/ FetchRejects
    \/ ResponseArrives
    \/ DataParsed
    \/ DataUnparsable
    \/ ErrorThrown

-----------------------------------------------------------------------------
(* js/app.js: the input listener, debounce and handleAutocomplete;         *)
(* js/api.js: fetchCitySuggestions.                                        *)

\* What the user can have typed into the search field: "", "P", "Pa", "Lo".
InputValues == {<<>>, <<80>>, <<80, 97>>, <<76, 111>>}

\* The provider's geocoding answer to a query: the names it finds.
GeoDirectory(query) ==
    IF query = <<80, 97>> THEN <<"Paris", "Palermo">>
    ELSE IF query = <<76, 111>> THEN <<"London">>
    ELSE <<>>

\* data.map(location => ({name, country, state, lat, lon, displayName}))
mapLocations(names) == [i \in 1..Len(names) |-> [name |-> names[i]]]

\* How the geocoding request of fetchCitySuggestions can end: fetch rejects,
\* the response has a non-success status, its body is no JSON, its body is
\* JSON but no array, its body is the array of matches.
SuggestOutcomes == {"failed", "status", "unparsable", "noarray", "ok"}

Returned(value) == [ret |-> value, threw |-> FALSE]

Thrown == [ret |-> <<>>, threw |-> TRUE]

\* The try block of fetchCitySuggestions, once its request settled.
tryFetchCitySuggestions(query, ending) ==
    IF ending = "ok" THEN Returned(mapLocations(GeoDirectory(query))) ELSE Thrown

\* fetchCitySuggestions(query, 5), once its request settled
fetchCitySuggestions(query, ending) ==
    IF Len(trim(query)) < 2 THEN Returned(<<>>)
    ELSE catch(tryFetchCitySuggestions(query, ending), Returned(<<>>))

\* debounce(handleAutocomplete, 500): the delay, in ticks of 250 ms.
delayTicks == 2

keepTimeout(ts, id) == ts

\* clearTimeout(id)
clearTimeout(ts, id) == {t \in ts : t.id # id}

\* The id setTimeout gives a new timeout: one that no pending timeout has.
NewTimeoutId(ts) == CHOOSE id \in 1..(Cardinality(ts) + 1) : \A t \in ts : t.id # id

\* setTimeout(callback, delay)
setTimeout(ts, id, delay) == ts \cup {[id |-> id, left |-> delay]}

Capped(n, max) == IF n < max THEN n + 1 ELSE max

\* The user types: the debounced listener clears its timeout and sets a new one.
Input ==
    \E value \in InputValues :
        /\ value # searchInput
        /\ searchInput' = value
        /\ LET cleared == clearTimeout(timers, timeoutId)
               id == NewTimeoutId(cleared)
           IN  /\ timers' = setTimeout(cleared, id, delayTicks)
               /\ timeoutId' = id
        /\ quiet' = 0
        /\ inputsSinceRun' = Capped(inputsSinceRun, 2)
        /\ UNCHANGED <<lastRun, lastSuggest, runs, suggestReqs, lastIssued,
                       displayed, latestAnswer>>
        /\ UNCHANGED notAutoVars

\* 250 ms pass with no input event; a timeout that is due may still wait for
\* its turn.
Tick ==
    /\ quiet < delayTicks \/ \E t \in timers : t.left > 0
    /\ timers' = {[t EXCEPT !.left = IF t.left > 0 THEN t.left - 1 ELSE 0] : t \in timers}
    /\ quiet' = Capped(quiet, delayTicks)
    /\ UNCHANGED <<searchInput, timeoutId, inputsSinceRun, lastRun, lastSuggest,
                   runs, suggestReqs, lastIssued, displayed, latestAnswer>>
    /\ UNCHANGED notAutoVars

\* A timeout that is due fires: handleAutocomplete starts.
TimeoutFires(t) ==
    /\ t.left = 0
    /\ runs < MaxRuns
    /\ timers' = timers \ {t}
    /\ runs' = runs + 1
    /\ lastRun' = [quiet |-> quiet, inputs |-> inputsSinceRun]
    /\ inputsSinceRun' = 0
    /\ UNCHANGED <<searchInput, timeoutId, quiet, lastSuggest>>
    /\ UNCHANGED notAutoVars

\* The debounce timer fires and handleAutocomplete runs on a query shorter
\* than 2: renderAutocomplete([]).
RunShortQuery ==
    \E t \in timers :
        /\ TimeoutFires(t)
        /\ Len(trim(searchInput)) < 2
        /\ displayed' = <<>>
        /\ UNCHANGED <<suggestReqs, lastIssued, latestAnswer>>

\* The debounce timer fires and handleAutocomplete runs up to its
\* await fetchCitySuggestions(query, 5): the request is issued.
RunIssuesRequest ==
    \E t \in timers :
        /\ TimeoutFires(t)
        /\ Len(trim(searchInput)) >= 2
        /\ suggestReqs' =
               suggestReqs \cup {[run |-> runs + 1, query |-> trim(searchInput)]}
        /\ lastIssued' = runs + 1
        /\ latestAnswer' = <<>>
        /\ UNCHANGED displayed

\* A suggestion request settles and its handleAutocomplete run goes on:
\* renderAutocomplete(suggestions, handleSuggestionClick), or console.error
\* in its catch.
SuggestionsArrive ==
    \E req \in suggestReqs, ending \in SuggestOutcomes :
        \E r \in {fetchCitySuggestions(req.query, ending)} :
        /\ suggestReqs' = suggestReqs \ {req}
        /\ displayed' = IF r.threw THEN displayed ELSE r.ret
        /\ lastSuggest' =
               [ending |-> ending, ret |-> r.ret, threw |-> r.threw,
                effects |-> IF r.threw THEN <<"console.error">>
                            ELSE <<"renderAutocomplete">>]
        /\ latestAnswer' = IF req.run = lastIssued THEN displayed' ELSE latestAnswer
        /\ UNCHANGED <<searchInput, timers, timeoutId, quiet, inputsSinceRun,
                       lastRun, runs, lastIssued>>
        /\ UNCHANGED notAutoVars

AutoNext ==
    \/ Input
    \/ Tick
    \/ RunShortQuery
    \/ RunIssuesRequest
    \/ SuggestionsArrive

-----------------------------------------------------------------------------
(* js/app.js: the controller.  A handler runs to its end or to its await   *)
(* in one step; the continuation of loadWeather after                      *)
(* await fetchWeatherData is a step of its own.                            *)

isAPIKeyConfigured(key) == key # "" /\ key # "YOUR_API_KEY_HERE"

\* What the user types before pressing Enter: "", " ", " P".
SearchTexts == {<<>>, <<32>>, <<32, 80>>}

\* The provider knows the cities "P" (in FR) and "L" (in GB), and answers a
\* query for "N" with a place that has no name (in ZZ).
KnownCity(q) == q \in {<<80>>, <<76>>, <<78>>}

\* name and sys.country of the provider's current-conditions answer.
Resolved(q) ==
    IF q = <<80>> THEN [name |-> <<80>>, country |-> <<70, 82>>]
    ELSE IF q = <<78>> THEN [name |-> EmptyString, country |-> <<90, 90>>]
    ELSE [name |-> <<76>>, country |-> <<71, 66>>]

\* forecast.list of the provider's answer: one sample for "P", one sample
\* at 12:00 UTC on each of six days for "L".
ForecastOf(name) ==
    IF name = <<80>> THEN <<Sample(36)>>
    ELSE [i \in 1..6 |-> Sample(12 + 24 * i)]

cityOnly(name, country) == name

\* `${weatherData.city}, ${weatherData.country}`
cityLabel(name, country) == name \o <<44, 32>> \o country

\* label.split(',')[0]
RECURSIVE beforeComma(_)
beforeComma(s) ==
    IF s = <<>> \/ Head(s) = 44 THEN <<>> ELSE <<Head(s)>> \o beforeComma(Tail(s))

\* currentCity.split(',')[0].trim()
cityNameOf(label) == trim(beforeComma(label))

same(unit) == unit

\* currentUnit === 'metric' ? 'imperial' : 'metric'
flip(unit) == IF unit = "metric" THEN "imperial" ELSE "metric"

unitOfFirstLeg(leg, unit) == IF leg = "current" THEN unit ELSE DefaultUnit

unitOf(leg, unit) == unit

\* fetchWeatherData(city, unit): the q and units parameters of its requests.
weatherRequests(city, unit) == [l \in Legs |-> [q |-> city, units |-> unitOf(l, unit)]]

\* What fetchWeatherData can reject with: the error of a request that did not
\* reach the provider and the error of a 401 response.
WeatherErrors == {FetchFailed, handleAPIError(401, "")}

NoData == [label |-> EmptyString, unit |-> "none"]

NoLoad == [changed |-> FALSE]

\* No fetch was issued yet.
NoneIssued == [city |-> EmptyString, outcome |-> "none"]

\* The fetch that was issued last, after a step with this result for this
\* call: its city and how it ended.  Two calls in flight for the same city
\* are not told apart.
IssuedLast(result, load) ==
    IF result = "none" THEN NoneIssued
    ELSE IF result = "started" THEN [city |-> load.city, outcome |-> "pending"]
    ELSE IF result \in {"succeeded", "failed"}
            /\ load.city = lastEvent.issuedLast.city
         THEN [lastEvent.issuedLast EXCEPT !.outcome = result]
    ELSE lastEvent.issuedLast

\* What is kept of the handler or continuation that ran last; for a load,
\* changed tells whether the handler that made it changed the session.
\* ls is the key-value store the step leaves.
Event(handler, result, load, effects, alert, saved, ls) ==
    [handler |-> handler, result |-> result,
     changed |-> load.changed, effects |-> effects, alert |-> alert,
     saved |-> saved, hadCity |-> currentCity # EmptyString,
     unitBefore |-> currentUnit,
     historyChanged |-> getHistory(ls, "none").ret # Persisted,
     issuedLast |-> IssuedLast(result, load)]

\* showLoading()
showLoading(v) == [v EXCEPT !.loading = TRUE, !.forecastGrid = "skeleton",
                            !.forecastDays = 0]

\* hideLoading()
hideLoading(v) == [v EXCEPT !.loading = FALSE]

failureEffectsSilent == <<"hideLoading">>

\* The catch of loadWeather.
failureEffects == <<"hideLoading", "showError">>

\* loadWeather after await fetchWeatherData, lines 84 to 97.
successEffects ==
    <<"renderCurrentWeather", "renderForecast", "saveToHistory",
      "renderRecentLocations", "clearSearchInput", "hideLoading">>

\* The key-value store of a first visit.
FreshStore == [k \in STORAGE_KEYS |-> Null]

\* The key-value store of a user who searched for "L" and chose imperial
\* units on an earlier visit.
UsedStore ==
    [k \in STORAGE_KEYS |->
        IF k = SEARCH_HISTORY THEN JSONstringify(<<cityLabel(<<76>>, <<71, 66>>)>>)
        ELSE IF k = PREFERRED_UNIT THEN PlainText("imperial")
        ELSE Null]

\* The key-value store of a user who searched for "N" on an earlier visit,
\* when the provider still answered with that name.
NamelessStore ==
    [FreshStore EXCEPT
        ![SEARCH_HISTORY] = JSONstringify(<<cityLabel(<<78>>, <<90, 90>>)>>)]

\* The key of config.js, line 1: a text of 32 hexadecimal digits, which the
\* code only ever compares with the empty text and with the placeholder.
API_KEY == "a configured key"

\* How the page is opened: the key, the key-value store and its fault.
Openings ==
    {[key |-> API_KEY, store |-> FreshStore, fault |-> "none"],
     [key |-> API_KEY, store |-> UsedStore, fault |-> "none"],
     [key |-> API_KEY, store |-> UsedStore, fault |-> "all"],
     [key |-> "YOUR_API_KEY_HERE", store |-> FreshStore, fault |-> "none"]}

\* The page that holds a recent location whose place has no name.
NamelessOpenings ==
    {[key |-> API_KEY, store |-> NamelessStore, fault |-> "none"]}

AppInitFrom(openings) ==
    /\ \E o \in openings :
          /\ apiKey = o.key
          /\ localStorage = o.store
          /\ storeFault = o.fault
    /\ lastCall = [op |-> "none", arg |-> EmptyString, before |-> <<>>]
    /\ ret = <<>>
    /\ threw = FALSE
    /\ recent = <<>>
    /\ started = FALSE
    /\ currentUnit = DefaultUnit
    /\ currentCity = EmptyString
    /\ currentWeatherData = NoData
    /\ view = [loading |-> FALSE, current |-> [data |-> NoData, unit |-> "none"],
               forecastGrid |-> "empty", forecastDays |-> 0, recent |-> <<>>,
               unitToggle |-> DefaultUnit]
    /\ loads = EmptyBag
    /\ lastEvent = Event("none", "none", NoLoad, <<>>, "", EmptyString, localStorage)

AppInit == AppInitFrom(Openings)

\* init(): loadUserPreferences, setupEventListeners, the check of the key.
init ==
    /\ ~started
    /\ started' = TRUE
    /\ LET available == isLocalStorageAvailable(storeFault)
           unit == getPreferredUnit(localStorage, storeFault).ret
           got == getHistory(localStorage, storeFault)
           configured == isAPIKeyConfigured(apiKey)
       IN  /\ currentUnit' = IF available THEN unit ELSE currentUnit
           /\ localStorage' = IF available THEN got.ls ELSE localStorage
           /\ view' = IF available
                      THEN [view EXCEPT !.unitToggle = unit, !.recent = got.ret]
                      ELSE view
           /\ lastEvent' =
                  Event("init", "done", NoLoad,
                        (IF available
                         THEN <<"getPreferredUnit", "updateUnitToggle", "getHistory",
                                "renderRecentLocations">>
                         ELSE <<>>)
                            \o (IF configured THEN <<>> ELSE <<"showError">>),
                        IF configured THEN "" ELSE "API Key not configured",
                        EmptyString, localStorage')
    /\ UNCHANGED <<apiKey, currentCity, currentWeatherData, loads, searchInput>>
    /\ UNCHANGED notAppVars

\* loadWeather(city) up to its await, called by handler with the unit and the
\* page as the handler left them; prefix is what the handler called before.
LoadWeather(city, unit, handler, prefix, v, ls) ==
    IF trim(city) = EmptyString
    THEN /\ loads' = loads
         /\ view' = v
         /\ lastEvent' = Event(handler, "rejected", NoLoad, prefix \o <<"showError">>,
                               "Masukkan nama kota", EmptyString, ls)
    ELSE /\ BagCardinality(loads) < MaxLoads
         /\ LET load == [city |-> city, unit |-> unit,
                         requests |-> weatherRequests(city, unit),
                         changed |-> unit # currentUnit,
                         effects |-> prefix \o <<"showLoading", "fetchWeatherData">>]
            IN  /\ loads' = loads (+) SetToBag({load})
                /\ view' = showLoading(v)
                /\ lastEvent' = Event(handler, "started", load, load.effects, "",
                                      EmptyString, ls)

\* The user types text and presses Enter: handleSearch.
HandleSearch ==
    \E text \in SearchTexts :
        /\ started
        /\ searchInput' = text
        /\ IF trim(text) = EmptyString
           THEN /\ lastEvent' = Event("handleSearch", "ignored", NoLoad, <<>>, "",
                                      EmptyString, localStorage)
                /\ UNCHANGED <<loads, view>>
           ELSE LoadWeather(trim(text), currentUnit, "handleSearch", <<>>, view,
                            localStorage)
        /\ UNCHANGED <<apiKey, started, currentUnit, currentCity, currentWeatherData,
                       localStorage>>
        /\ UNCHANGED notAppVars

\* The user clicks a recent location: handleLocationClick(location).
HandleLocationClick ==
    \E i \in 1..Len(view.recent) :
        /\ started
        /\ LoadWeather(cityNameOf(view.recent[i]), currentUnit, "handleLocationClick",
                       <<>>, view, localStorage)
        /\ UNCHANGED <<apiKey, started, currentUnit, currentCity, currentWeatherData,
                       localStorage, searchInput>>
        /\ UNCHANGED notAppVars

\* A removal that loads the current city again once the list is rendered.
HandleLocationRemoveThenRefresh ==
    \E i \in 1..Len(view.recent) :
        \E r \in {removeFromHistoryByIndex(localStorage, storeFault, i - 1)} :
        /\ started
        /\ localStorage' = r.ls
        /\ IF currentCity = EmptyString
           THEN /\ view' = [view EXCEPT !.recent = r.ret]
                /\ loads' = loads
                /\ lastEvent' = Event("handleLocationRemove", "done", NoLoad,
                                      <<"removeFromHistoryByIndex",
                                        "renderRecentLocations">>,
                                      "", EmptyString, r.ls)
           ELSE LoadWeather(cityNameOf(currentCity), currentUnit,
                            "handleLocationRemove",
                            <<"removeFromHistoryByIndex", "renderRecentLocations">>,
                            [view EXCEPT !.recent = r.ret], r.ls)
        /\ UNCHANGED <<apiKey, started, currentUnit, currentCity, currentWeatherData,
                       searchInput>>
        /\ UNCHANGED notAppVars

\* The user clicks the remove button of a recent location:
\* handleLocationRemove(index).
HandleLocationRemove ==
    \E i \in 1..Len(view.recent) :
        \E r \in {removeFromHistoryByIndex(localStorage, storeFault, i - 1)} :
        /\ started
        /\ localStorage' = r.ls
        /\ view' = [view EXCEPT !.recent = r.ret]
        /\ lastEvent' = Event("handleLocationRemove", "done", NoLoad,
                              <<"removeFromHistoryByIndex", "renderRecentLocations">>,
                              "", EmptyString, r.ls)
        /\ UNCHANGED <<apiKey, started, currentUnit, currentCity, currentWeatherData,
                       loads, searchInput>>
        /\ UNCHANGED notAppVars

\* The user clicks the refresh button: handleRefresh.
HandleRefresh ==
    /\ started
    /\ IF currentCity = EmptyString
       THEN /\ lastEvent' = Event("handleRefresh", "rejected", NoLoad, <<"showError">>,
                                  "No city to refresh", EmptyString, localStorage)
            /\ UNCHANGED <<loads, view>>
       ELSE LoadWeather(cityNameOf(currentCity), currentUnit, "handleRefresh", <<>>,
                        view, localStorage)
    /\ UNCHANGED <<apiKey, started, currentUnit, currentCity, currentWeatherData,
                   localStorage, searchInput>>
    /\ UNCHANGED notAppVars

\* The user clicks the unit button: handleUnitToggle.  Its catch is never
\* entered, for loadWeather catches whatever its fetch throws.
HandleUnitToggle ==
    \E newUnit \in {flip(currentUnit)} :
    \E r \in {savePreferredUnit(localStorage, storeFault, newUnit)} :
        /\ started
        /\ currentUnit' = newUnit
        /\ localStorage' = r.ls
        /\ IF currentCity = EmptyString
           THEN /\ view' = [view EXCEPT !.unitToggle = newUnit]
                /\ loads' = loads
                /\ lastEvent' = Event("handleUnitToggle", "done", NoLoad,
                                      <<"savePreferredUnit", "updateUnitToggle">>, "",
                                      EmptyString, r.ls)
           ELSE LoadWeather(cityNameOf(currentCity), newUnit, "handleUnitToggle",
                            <<"showLoading", "savePreferredUnit", "updateUnitToggle">>,
                            [showLoading(view) EXCEPT !.unitToggle = newUnit], r.ls)
        /\ UNCHANGED <<apiKey, started, currentCity, currentWeatherData, searchInput>>
        /\ UNCHANGED notAppVars

\* A call whose fetch has settled is kept awaiting it: its fetch is issued
\* again.
Retried(pending, load) == pending

\* The calls still awaiting their fetch once that of load has settled.
Without(pending, load) == pending (-) SetToBag({load})

\* fetchWeatherData resolves and loadWeather goes on from line 84 to its end.
LoadSucceeds ==
    \E load \in BagToSet(loads) :
        /\ KnownCity(load.city)
        /\ LET place == Resolved(load.city)
               label == cityLabel(place.name, place.country)
               data == [label |-> cityLabel(place.name, place.country),
                        unit |-> load.unit]
               days == Len(filterDailyForecast(ForecastOf(place.name), timezone))
               saved == saveToHistory(localStorage, storeFault, label)
           IN  /\ currentWeatherData' = data
               /\ currentCity' = label
               /\ localStorage' = saved.ls
               /\ view' = [hideLoading(view) EXCEPT
                              !.current = [data |-> data, unit |-> currentUnit],
                              !.forecastGrid = "cards",
                              !.forecastDays = days,
                              !.recent = saved.ret]
               /\ searchInput' = EmptyString
               /\ loads' = Without(loads, load)
               /\ lastEvent' = Event("loadWeather", "succeeded", load,
                                     load.effects \o successEffects, "", label,
                                     saved.ls)
        /\ UNCHANGED <<apiKey, started, currentUnit>>
        /\ UNCHANGED notAppVars

\* fetchWeatherData rejects and loadWeather goes on in its catch.
LoadFails ==
    \E load \in BagToSet(loads), error \in WeatherErrors :
        /\ view' = hideLoading(view)
        /\ loads' = Without(loads, load)
        /\ lastEvent' = Event("loadWeather", "failed", load,
                              load.effects \o failureEffects, error.message,
                              EmptyString, localStorage)
        /\ UNCHANGED <<apiKey, started, currentUnit, currentCity, currentWeatherData,
                       localStorage, searchInput>>
        /\ UNCHANGED notAppVars

AppNext ==
    \/ init
    \/ HandleSearch
    \/ HandleLocationClick
    \/ HandleLocationRemove
    \/ HandleRefresh
    \/ HandleUnitToggle
    \/ LoadSucceeds
    \/ LoadFails

-----------------------------------------------------------------------------
(* js/utils.js: roundNumber.  A value is a whole number of hundredths, so   *)
(* that the products and quotients below are exact.                        *)

\* Math.pow(10, decimals)
RECURSIVE pow(_, _)
pow(base, exponent) == IF exponent = 0 THEN 1 ELSE base * pow(base, exponent - 1)

\* Math.round of num / den (den > 0): the nearest integer, halves toward
\* plus infinity, that is floor(x + 0.5).
MathRound(num, den) == (2 * num + den) \div (2 * den)

\* Math.round(value * Math.pow(10, decimals)) / Math.pow(10, decimals), the
\* value and the result in hundredths; decimals is 0, 1 or 2.
roundNumber(value, decimals) ==
    (MathRound(value * pow(10, decimals), 100) * 100) \div pow(10, decimals)

\* The decimals roundNumber is called with: the default 0, 1 and 2.
Decimals == {0, 1, 2}

NotRounded == [value |-> 0, decimals |-> 0, result |-> 0, returned |-> FALSE]

RoundInit ==
    \E value \in (-MaxHundredths)..MaxHundredths, decimals \in Decimals :
        rounding = [value |-> value, decimals |-> decimals, result |-> 0,
                    returned |-> FALSE]

RoundNumber ==
    /\ ~rounding.returned
    /\ rounding' = [rounding EXCEPT
                       !.result = roundNumber(rounding.value, rounding.decimals),
                       !.returned = TRUE]
    /\ UNCHANGED notUtilVars

RoundNext == RoundNumber

-----------------------------------------------------------------------------
(* The specifications: one per part of the program, the other parts idle.  *)

HistoryIdle ==
    /\ localStorage = [k \in STORAGE_KEYS |-> Null]
    /\ storeFault = "none"
    /\ lastCall = [op |-> "none", arg |-> EmptyString, before |-> <<>>]
    /\ ret = <<>>
    /\ threw = FALSE
    /\ recent = <<>>

ForecastIdle ==
    /\ timezone = 0
    /\ forecastList = <<>>
    /\ dailyData = <<>>
    /\ filtered = FALSE

FetchIdle ==
    /\ legs = [l \in Legs |-> IdleLeg]
    /\ outcome = Promise("idle", NoError)
    /\ settledFirst = "none"

AutoIdle ==
    /\ searchInput = EmptyString
    /\ timers = {}
    /\ timeoutId = 0
    /\ quiet = delayTicks
    /\ inputsSinceRun = 0
    /\ lastRun = [quiet |-> 0, inputs |-> 0]
    /\ lastSuggest = [ending |-> "none", ret |-> <<>>, threw |-> FALSE,
                      effects |-> <<>>]
    /\ runs = 0
    /\ suggestReqs = {}
    /\ lastIssued = 0
    /\ displayed = <<>>
    /\ latestAnswer = <<>>

UtilIdle == rounding = NotRounded

AppIdle ==
    /\ apiKey = API_KEY
    /\ started = FALSE
    /\ currentUnit = DefaultUnit
    /\ currentCity = EmptyString
    /\ currentWeatherData = NoData
    /\ view = [loading |-> FALSE, current |-> [data |-> NoData, unit |-> "none"],
               forecastGrid |-> "empty", forecastDays |-> 0, recent |-> <<>>,
               unitToggle |-> DefaultUnit]
    /\ loads = EmptyBag
    /\ lastEvent = [handler |-> "none"]

InitHistory == HistoryInit /\ ForecastIdle /\ FetchIdle /\ AutoIdle /\ AppIdle /\ UtilIdle

InitForecast == ForecastInit /\ HistoryIdle /\ FetchIdle /\ AutoIdle /\ AppIdle /\ UtilIdle

InitFetch == FetchInit /\ HistoryIdle /\ ForecastIdle /\ AutoIdle /\ AppIdle /\ UtilIdle

InitAutocomplete == AutoIdle /\ HistoryIdle /\ ForecastIdle /\ FetchIdle /\ AppIdle /\ UtilIdle

SpecHistory == InitHistory /\ [][HistoryNext]_vars

InitStore == StoreInit /\ ForecastIdle /\ FetchIdle /\ AutoIdle /\ AppIdle /\ UtilIdle

InitController == AppInit /\ ForecastIdle /\ FetchIdle /\ AutoIdle /\ UtilIdle

SpecStore == InitStore /\ [][StoreNext]_vars

SpecController == InitController /\ [][AppNext]_vars

InitLoading ==
    AppInitFrom(NamelessOpenings) /\ ForecastIdle /\ FetchIdle /\ AutoIdle /\ UtilIdle

\* Every provider request eventually settles: a call that awaits its fetch
\* is eventually continued, on its success path or in its catch.
SpecLoading ==
    InitLoading /\ [][AppNext]_vars /\ WF_vars(LoadSucceeds \/ LoadFails)

SpecForecast == InitForecast /\ [][ForecastNext]_vars

SpecFetch == InitFetch /\ [][FetchNext]_vars

SpecAutocomplete == InitAutocomplete /\ [][AutoNext]_vars

InitRound ==
    RoundInit /\ HistoryIdle /\ ForecastIdle /\ FetchIdle /\ AutoIdle /\ AppIdle

SpecRound == InitRound /\ [][RoundNext]_vars

-----------------------------------------------------------------------------
(* Properties of the search history.                                       *)

\* The letter of the alphabet (1..26) a character code stands for, 0 for none.
LetterOf(c) ==
    IF c \in 65..90 THEN c - 64 ELSE IF c \in 97..122 THEN c - 96 ELSE 0

\* Two strings are equal under case-insensitive comparison.
EqualIgnoringCase(a, b) ==
    /\ Len(a) = Len(b)
    /\ \A k \in 1..Len(a) :
          \/ a[k] = b[k]
          \/ LetterOf(a[k]) # 0 /\ LetterOf(a[k]) = LetterOf(b[k])

NoTwoEqualIgnoringCase(list) ==
    \A i, j \in 1..Len(list) : i # j => ~EqualIgnoringCase(list[i], list[j])

Matches(list, city) == {i \in 1..Len(list) : EqualIgnoringCase(list[i], city)}

\* The entries of list that do not match city, in their order.
Others(list, city) ==
    LET Differs(e) == ~EqualIgnoringCase(e, city) IN SelectSeq(list, Differs)

FirstN(list, n) == SubSeq(list, 1, IF Len(list) < n THEN Len(list) ELSE n)

Reverse(list) == [i \in 1..Len(list) |-> list[Len(list) + 1 - i]]

\* C1: starting from an empty store, after any sequence of saveToHistory,
\* removeFromHistoryByIndex, removeFromHistory and clearHistory calls the
\* persisted history holds no two entries equal under case-insensitive
\* comparison and at most maxHistoryItems (5) entries.
C1_HistoryInvariant ==
    /\ NoTwoEqualIgnoringCase(Persisted)
    /\ Len(Persisted) <= maxHistoryItems

\* A new city was recorded into a full history: an entry had to be evicted.
C1_Witness ==
    /\ lastCall.op = "saveToHistory"
    /\ lastCall.arg # EmptyString
    /\ Len(lastCall.before) = maxHistoryItems
    /\ Matches(lastCall.before, lastCall.arg) = {}
    /\ Len(Persisted) = maxHistoryItems

\* C2: saveToHistory(location), for a non-empty location, returns and
\* persists location followed by the previous entries that do not match it
\* case-insensitively, in their previous order, cut to maxHistoryItems; a
\* location that matches an existing entry leaves the length unchanged and
\* stands at position 0 in the casing just recorded.
C2_RecordSearch ==
    (lastCall.op = "saveToHistory" /\ lastCall.arg # EmptyString) =>
        LET expected ==
                FirstN(<<lastCall.arg>> \o Others(lastCall.before, lastCall.arg),
                       maxHistoryItems)
        IN  /\ ret = expected
            /\ Persisted = expected
            /\ ret[1] = lastCall.arg
            /\ Matches(lastCall.before, lastCall.arg) # {} =>
                   Len(Persisted) = Len(lastCall.before)

\* A location was recorded that differs only in letter case from an entry
\* further down a full history.
C2_Witness ==
    /\ lastCall.op = "saveToHistory"
    /\ lastCall.arg = <<97>>
    /\ Len(lastCall.before) = maxHistoryItems
    /\ \E i \in 2..Len(lastCall.before) : lastCall.before[i] = <<65>>
    /\ Persisted[1] = <<97>>

\* C3: recording maxHistoryItems + 1 pairwise different cities in a row leaves
\* a history of exactly maxHistoryItems entries, newest first, without the city
\* that was recorded first.
C3_OldestEvicted ==
    (Len(recent) = maxHistoryItems + 1 /\ NoTwoEqualIgnoringCase(recent)) =>
        /\ Len(Persisted) = maxHistoryItems
        /\ Persisted = Reverse(SubSeq(recent, 2, maxHistoryItems + 1))
        /\ Matches(Persisted, recent[1]) = {}

\* maxHistoryItems + 1 different cities have been recorded in a row.
C3_Witness ==
    /\ Len(recent) = maxHistoryItems + 1
    /\ lastCall.op = "saveToHistory"
    /\ lastCall.arg = recent[maxHistoryItems + 1]

\* The operations that return the history.
HistoryOps == {"getHistory", "saveToHistory", "removeFromHistory",
               "removeFromHistoryByIndex", "clearHistory"}

\* C20: whatever the key-value store does (reads throw, writes throw, the
\* stored value is unparsable or of the wrong shape), no operation of
\* storage.js throws to its caller; the history operations return a list,
\* getPreferredUnit returns metric or imperial, getThemePreference returns
\* light or dark.
C20_OperationsTotal ==
    /\ ~threw
    /\ lastCall.op \in HistoryOps => ret \in Seq(StoreCities \cup {Number})
    /\ lastCall.op = "getPreferredUnit" => ret \in Units
    /\ lastCall.op = "getThemePreference" => ret \in Themes

\* A location was recorded on a store whose accesses all throw, over a
\* stored value that cannot be parsed.
C20_Witness ==
    /\ lastCall.op = "saveToHistory"
    /\ lastCall.arg # EmptyString
    /\ storeFault = "all"
    /\ JSONparseThrows(localStorage[SEARCH_HISTORY])
    /\ ~threw

-----------------------------------------------------------------------------
(* Properties of the forecast bucketizer.                                  *)

\* The calendar day of a sample in local time, counted from the epoch.
LocalDay(item) == (item.dt + timezone * 3600) \div 86400

\* The hour of a sample in local time, counted from the epoch.
LocalHour(item) == ((item.dt + timezone * 3600) \div 3600) % 24

InNoonWindow(item) == LocalHour(item) \in 11..15

\* The samples of the input on calendar day d, by position.
SamplesOfDay(d) == {i \in 1..Len(forecastList) : LocalDay(forecastList[i]) = d}

NoonSamplesOfDay(d) == {i \in SamplesOfDay(d) : InNoonWindow(forecastList[i])}

Least(S) == CHOOSE i \in S : \A j \in S : i <= j

DaysSpanned == {LocalDay(forecastList[i]) : i \in 1..Len(forecastList)}

\* C4: for a time-ascending sample list spanning N calendar days (local time)
\* filterDailyForecast returns min(N, 5) entries in strictly increasing day
\* order, no two of them on the same calendar day.
C4_OnePerDayInOrder ==
    filtered =>
        /\ Len(dailyData) =
              IF Cardinality(DaysSpanned) < 5 THEN Cardinality(DaysSpanned) ELSE 5
        /\ \A i, j \in 1..Len(dailyData) :
              i < j => LocalDay(dailyData[i]) < LocalDay(dailyData[j])

\* C5: the representative of every emitted day that has a sample in the noon
\* window 11:00-15:00 is the first such sample in input order.
C5_NoonPreferred ==
    filtered =>
        \A k \in 1..Len(dailyData) :
            LET d == LocalDay(dailyData[k]) IN
            NoonSamplesOfDay(d) # {} =>
                dailyData[k] = forecastList[Least(NoonSamplesOfDay(d))]

\* C6: the representative of every emitted day that has no sample in the noon
\* window 11:00-15:00 is the first sample of that day in input order, whatever
\* its hour.
C6_EarliestOtherwise ==
    filtered =>
        \A k \in 1..Len(dailyData) :
            LET d == LocalDay(dailyData[k]) IN
            NoonSamplesOfDay(d) = {} =>
                dailyData[k] = forecastList[Least(SamplesOfDay(d))]

-----------------------------------------------------------------------------
(* Properties of the weather client.                                       *)

OutcomeReported == outcome.state \in {"resolved", "rejected"}

\* C8: both requests of fetchWeatherData are issued before either response
\* is awaited, and the outcome is reported only after both legs have settled:
\* a failure of one leg is not reported while the other leg is in flight.
C8_JoinedAfterBothSettle ==
    /\ outcome.state # "idle" => \A l \in Legs : legs[l].at # "idle"
    /\ OutcomeReported => \A l \in Legs : LegSettled(legs[l])

\* The error kinds of the weather client.
KindOfStatus(status) ==
    CASE status \in {400, 404} -> "CityNotFound"
      [] status = 401 -> "InvalidCredential"
      [] status = 429 -> "RateLimited"
      [] OTHER -> "NetworkOrServerError"

\* authentication > not-found > rate-limit > generic server/network error
Priority(kind) ==
    CASE kind = "InvalidCredential" -> 4
      [] kind = "CityNotFound" -> 3
      [] kind = "RateLimited" -> 2
      [] OTHER -> 1

\* The kind of the failure of a rejected leg: by the status of the response
\* it got; a request that got no response, or a success response it could not
\* parse, is a network or server error.
KindOfLeg(leg) ==
    IF leg.status = 0 \/ ResponseOk(leg.status) THEN "NetworkOrServerError"
    ELSE KindOfStatus(leg.status)

\* C9: when both legs of fetchWeatherData fail, the error reported is the one
\* of higher priority, whichever leg failed first.
C9_MoreSpecificErrorWins ==
    (outcome.state = "rejected" /\ \A l \in Legs : legs[l].at = "rejected") =>
        /\ \E l \in Legs : outcome.error = legs[l].error
        /\ \A l, m \in Legs :
              Priority(KindOfLeg(legs[l])) > Priority(KindOfLeg(legs[m])) =>
                  outcome.error = legs[l].error

\* The error kind an Error of the weather client carries: the one whose
\* message of ERROR_MESSAGES it holds.
KindOfError(error) ==
    CASE error.message = "CITY_NOT_FOUND" -> "CityNotFound"
      [] error.message = "INVALID_API_KEY" -> "InvalidCredential"
      [] error.message = "RATE_LIMIT" -> "RateLimited"
      [] error.message \in {"API_ERROR", "NETWORK_ERROR"} -> "NetworkOrServerError"
      [] OTHER -> "none"

\* C10: the error of a request that failed with an HTTP status has the kind
\* the status gives (400, 404: CityNotFound; 401: InvalidCredential; 429:
\* RateLimited; any other: NetworkOrServerError); a message in the error body
\* becomes the text of the error and leaves the kind as the status gives it.
C10_KindByStatus ==
    \A l \in Legs :
        (legs[l].at = "rejected" /\ legs[l].status # 0 /\ ~ResponseOk(legs[l].status)) =>
            /\ KindOfError(legs[l].error) = KindOfStatus(legs[l].status)
            /\ legs[l].body # "" => legs[l].error.message = legs[l].body

-----------------------------------------------------------------------------
(* Properties of the autocomplete flow.                                    *)

C18_Debounced ==
    runs > 0 => /\ lastRun.quiet >= delayTicks
                /\ lastRun.inputs >= 1

\* A request was issued after a burst of two input events.
C18_Witness ==
    /\ runs > 0
    /\ lastIssued = runs
    /\ lastRun.inputs = 2
    /\ lastRun.quiet = delayTicks

\* C7: a suggestion response of a query that is no longer the latest issued
\* one does not replace the displayed suggestions: once every suggestion
\* request has settled, the suggestions displayed are those of the request
\* issued last, in whatever order the responses arrived.
C7_LastRequestWins ==
    (suggestReqs = {} /\ lastIssued # 0 /\ runs = lastIssued) =>
        displayed = latestAnswer

-----------------------------------------------------------------------------
(* Properties of the controller.                                           *)

\* How often a handler made the call named.
Count(effects, name) == Cardinality({i \in 1..Len(effects) : effects[i] = name})

\* The place of the first call named among the calls a handler made, 0 when
\* it made none.
First(effects, name) ==
    IF Count(effects, name) = 0 THEN 0
    ELSE CHOOSE i \in 1..Len(effects) :
            /\ effects[i] = name
            /\ \A j \in 1..(i - 1) : effects[j] # name

\* The text before the first ", " of a label, the whole label when it has none.
NamePart(text) ==
    LET commas == {i \in 1..(Len(text) - 1) : text[i] = 44 /\ text[i + 1] = 32}
    IN  IF commas = {} THEN text
        ELSE SubSeq(text, 1, (CHOOSE i \in commas : \A j \in commas : i <= j) - 1)

\* A label of the form "City, CC".
IsCityCountryLabel(text) ==
    /\ NamePart(text) # EmptyString
    /\ Len(text) = Len(NamePart(text)) + 4
    /\ \A i \in 1..Len(text) : i # Len(NamePart(text)) + 2 => text[i] # 32

\* C11: when the fetch of a loadWeather call fails, the call records nothing
\* in the history and leaves the persisted history as it was, renders neither
\* current conditions nor forecast, and shows exactly one error, with the
\* message of the error the fetch threw.
C11_FailedLoadOnlyAlerts ==
    lastEvent.result = "failed" =>
        /\ ~lastEvent.historyChanged
        /\ Count(lastEvent.effects, "saveToHistory") = 0
        /\ Count(lastEvent.effects, "renderCurrentWeather") = 0
        /\ Count(lastEvent.effects, "renderForecast") = 0
        /\ Count(lastEvent.effects, "showError") = 1
        /\ \E error \in WeatherErrors : lastEvent.alert = error.message

\* The fetch failed with a 401 while the history held a location.
C11_Witness ==
    /\ lastEvent.result = "failed"
    /\ lastEvent.alert = "INVALID_API_KEY"
    /\ Persisted # <<>>
    /\ view.recent = Persisted

\* C12: when the fetch started by a user action fails, the current city, the
\* current unit and the snapshot are what they were before that user action.
C12_FailureLeavesSession ==
    lastEvent.result = "failed" => ~lastEvent.changed

\* C13: a loadWeather call whose fetch succeeds signals loading before the
\* fetch, renders the current conditions once and the forecast once, with 1
\* to 5 days, records the "City, CC" label of the answer once, and after
\* these signals loading complete; the input field is left empty.
C13_SuccessfulLoad ==
    lastEvent.result = "succeeded" =>
        LET e == lastEvent.effects IN
        /\ Count(e, "saveToHistory") = 1
        /\ IsCityCountryLabel(lastEvent.saved)
        /\ lastEvent.saved = currentCity
        /\ storeFault = "none" => Persisted[1] = lastEvent.saved
        /\ Count(e, "renderCurrentWeather") = 1
        /\ Count(e, "renderForecast") = 1
        /\ view.current.data.label = lastEvent.saved
        /\ view.forecastGrid = "cards"
        /\ view.forecastDays \in 1..5
        /\ First(e, "showLoading") > 0
        /\ First(e, "showLoading") < First(e, "fetchWeatherData")
        /\ Count(e, "fetchWeatherData") = 1
        /\ Count(e, "hideLoading") = 1
        /\ \A name \in {"fetchWeatherData", "renderCurrentWeather", "renderForecast",
                        "saveToHistory"} :
              First(e, name) < First(e, "hideLoading")
        /\ Count(e, "clearSearchInput") = 1
        /\ First(e, "saveToHistory") < First(e, "clearSearchInput")
        /\ searchInput = EmptyString
        /\ ~view.loading

\* A search for "L" succeeded after one for "P": five forecast days are
\* shown and the history holds both labels.
C13_Witness ==
    /\ lastEvent.result = "succeeded"
    /\ storeFault = "none"
    /\ view.forecastDays = 5
    /\ Len(Persisted) = 2
    /\ Persisted[1] = lastEvent.saved

\* C14: a click on the unit button while no city is loaded flips the current
\* unit, persists the new unit (on a working store) and issues no request.
C14_ToggleWithoutCity ==
    (lastEvent.handler = "handleUnitToggle" /\ ~lastEvent.hadCity) =>
        /\ currentUnit \in Units
        /\ currentUnit # lastEvent.unitBefore
        /\ storeFault = "none" => localStorage[PREFERRED_UNIT] = PlainText(currentUnit)
        /\ Count(lastEvent.effects, "savePreferredUnit") = 1
        /\ Count(lastEvent.effects, "fetchWeatherData") = 0
        /\ lastEvent.result = "done"

\* The unit button was clicked before any city was loaded, on a working
\* store, and no load is under way.
C14_Witness ==
    /\ lastEvent.handler = "handleUnitToggle"
    /\ ~lastEvent.hadCity
    /\ storeFault = "none"
    /\ currentUnit = "imperial"
    /\ loads = EmptyBag

C16_NoRequestWithoutKey ==
    ~isAPIKeyConfigured(apiKey) =>
        /\ lastEvent.handler = "init" => lastEvent.alert = "API Key not configured"
        /\ loads = EmptyBag

\* C19: on a key-value store whose accesses all throw, the recent locations
\* shown after a successful load hold the loaded city, and a click on the
\* unit button changes the current unit.
C19_InMemoryFallback ==
    storeFault = "all" =>
        /\ lastEvent.result = "succeeded" =>
              \E i \in 1..Len(view.recent) : view.recent[i] = lastEvent.saved
        /\ lastEvent.handler = "handleUnitToggle" =>
              currentUnit # lastEvent.unitBefore

-----------------------------------------------------------------------------
(* Properties of the store operations, one operation at a time.            *)

\* A list all of whose elements are strings.
AllStrings(list) == \A i \in 1..Len(list) : IsString(list[i])

\* C21: on a working store getHistory returns a list of strings, which is the
\* persisted list when that is an array of strings, and a later read returns
\* the same list.
C21_ListHistoryChecked ==
    (lastCall.op = "getHistory" /\ storeFault = "none") =>
        /\ AllStrings(ret)
        /\ getHistory(localStorage, storeFault).ret = ret
        /\ IsArray(localStorage[SEARCH_HISTORY]) => ret = JSONparse(localStorage[SEARCH_HISTORY])

\* The history the store reads as: the stored array, the empty list when the
\* key is absent, unreadable, unparsable or no array.
ReadsAs(ls, fault) ==
    IF ~GetItemThrows(fault) /\ IsArray(ls[SEARCH_HISTORY])
    THEN JSONparse(ls[SEARCH_HISTORY])
    ELSE <<>>

\* The step is a call of removeFromHistoryByIndex with an index below 0 or
\* at least the length of the history the store reads as.
OutOfRangeRemoval ==
    /\ lastCall'.op = "removeFromHistoryByIndex"
    /\ \/ lastCall'.arg < 0
       \/ lastCall'.arg >= Len(ReadsAs(localStorage, storeFault))

\* C22, as the claim states it: removeFromHistoryByIndex with an index out of
\* range returns the history the store reads as, does not throw and leaves
\* every key of the store as it was.
C22_OutOfRangeWritesNothing ==
    [][OutOfRangeRemoval =>
          /\ ~threw'
          /\ ret' = ReadsAs(localStorage, storeFault)
          /\ localStorage' = localStorage]_vars

\* C22, amended: removeFromHistoryByIndex with an index out of range returns
\* the history the store reads as, does not throw and leaves the store as it
\* was, except that a stored JSON value that is no array is removed by the
\* read the operation begins with, when the store lets it be removed.
C22_OutOfRangeKeepsHistory ==
    [][OutOfRangeRemoval =>
          /\ ~threw'
          /\ ret' = ReadsAs(localStorage, storeFault)
          /\ ReadsAs(localStorage', storeFault) = ReadsAs(localStorage, storeFault)
          /\ localStorage' =
                IF ~GetItemThrows(storeFault)
                   /\ ~RemoveItemThrows(storeFault)
                   /\ localStorage[SEARCH_HISTORY].json = "object"
                THEN [localStorage EXCEPT ![SEARCH_HISTORY] = Null]
                ELSE localStorage]_vars

\* removeFromHistoryByIndex(2) was called on a working store that holds two
\* locations, and returned both.
C22_Witness ==
    /\ lastCall.op = "removeFromHistoryByIndex"
    /\ lastCall.arg = 2
    /\ storeFault = "none"
    /\ Len(lastCall.before) = 2
    /\ ret = lastCall.before
    /\ localStorage[SEARCH_HISTORY] = JSONstringify(ret)

\* C23: on a working store that holds a list of strings, removeFromHistory
\* with a location returns the previous history without the entries equal to
\* the location under case-insensitive comparison, the others in their
\* order, and persists what it returns.
C23_RemoveByName ==
    (/\ lastCall.op = "removeFromHistory"
     /\ lastCall.arg # EmptyString
     /\ storeFault = "none"
     /\ AllStrings(lastCall.before)) =>
        /\ ret = Others(lastCall.before, lastCall.arg)
        /\ Matches(lastCall.before, lastCall.arg) = {} => ret = lastCall.before
        /\ localStorage[SEARCH_HISTORY] = JSONstringify(ret)
        /\ ~threw

\* removeFromHistory("a") on the stored list "A", "B", "a" returned "B".
C23_Witness ==
    /\ lastCall.op = "removeFromHistory"
    /\ lastCall.arg = <<97>>
    /\ lastCall.before = <<<<65>>, <<66>>, <<97>>>>
    /\ storeFault = "none"
    /\ ret = <<<<66>>>>

\* C24: savePreferredUnit with a unit other than metric and imperial leaves
\* the store as it was; getPreferredUnit returns the stored unit when the
\* store can be read and holds metric or imperial, and metric otherwise;
\* neither throws.
C24_UnitPreferenceValidated ==
    [][/\ (lastCall'.op = "savePreferredUnit"
              /\ lastCall'.arg \notin {"metric", "imperial"}) =>
             /\ localStorage' = localStorage
             /\ ~threw'
       /\ lastCall'.op = "getPreferredUnit" =>
             /\ ~threw'
             /\ localStorage' = localStorage
             /\ ret' = IF GetItemThrows(storeFault) THEN "metric"
                       ELSE IF localStorage[PREFERRED_UNIT] = PlainText("imperial")
                            THEN "imperial"
                       ELSE "metric"]_vars

\* getPreferredUnit returned metric from a working store that holds kelvin.
C24_Witness ==
    /\ lastCall.op = "getPreferredUnit"
    /\ storeFault = "none"
    /\ localStorage[PREFERRED_UNIT] = PlainText("kelvin")
    /\ ret = "metric"

-----------------------------------------------------------------------------
(* Properties of filterDailyForecast, continued.                           *)

\* C25: every entry of the result of filterDailyForecast is a sample of its
\* input, no sample is entered twice, the result has fewer than 5 entries
\* when the input spans fewer than 5 calendar days (local time), and it is
\* empty when the input is empty.
C25_NeverPadded ==
    filtered =>
        /\ \A k \in 1..Len(dailyData) :
              \E i \in 1..Len(forecastList) : dailyData[k] = forecastList[i]
        /\ \A j, k \in 1..Len(dailyData) : j # k => dailyData[j] # dailyData[k]
        /\ Len(dailyData) <= 5
        /\ Cardinality(DaysSpanned) < 5 => Len(dailyData) < 5
        /\ forecastList = <<>> => dailyData = <<>>

-----------------------------------------------------------------------------
(* Properties of roundNumber.                                              *)

\* Rounding of num / den (den > 0) to the nearest integer, halves away from
\* zero.
roundHalfAwayFromZero(num, den) ==
    IF num >= 0 THEN (2 * num + den) \div (2 * den)
    ELSE -((2 * (-num) + den) \div (2 * den))

\* C26: roundNumber(value, decimals) is value rounded to the nearest multiple
\* of 10^-decimals, halves away from zero, for negative values as well:
\* roundNumber(-2.5) = -3 and roundNumber(2.5) = 3.
C26_RoundHalfAwayFromZero ==
    rounding.returned =>
        LET unit == 100 \div pow(10, rounding.decimals)
        IN  rounding.result = roundHalfAwayFromZero(rounding.value, unit) * unit

-----------------------------------------------------------------------------
(* Properties of the controller, continued.                                *)

\* The handlers a user action runs.
UserHandlers ==
    {"handleSearch", "handleLocationClick", "handleRefresh", "handleUnitToggle"}

\* The provider requests awaiting their answer: those of every call in pending.
InFlight(pending) == BagCardinality(pending) * Cardinality(Legs)

\* C27: no retries.  A loadWeather call calls fetchWeatherData at most once
\* and its fetch issues one request to each of the two endpoints; the
\* continuation of a failed fetch issues no request, it only ends its own call;
\* the requests in flight grow only in a handler of a user action, by the two
\* requests of one fetch.
C27_NoRetries ==
    [][/\ Count(lastEvent'.effects, "fetchWeatherData") <= 1
       /\ \A load \in BagToSet(loads') : DOMAIN load.requests = Legs
       /\ lastEvent'.result = "failed" =>
              /\ \E load \in BagToSet(loads) : loads' = loads (-) SetToBag({load})
              /\ InFlight(loads') = InFlight(loads) - Cardinality(Legs)
       /\ InFlight(loads') > InFlight(loads) =>
              /\ lastEvent'.handler \in UserHandlers
              /\ InFlight(loads') = InFlight(loads) + Cardinality(Legs)]_vars

\* A fetch failed on the network after its one call of fetchWeatherData, and
\* no request is in flight.
C27_Witness ==
    /\ lastEvent.result = "failed"
    /\ lastEvent.alert = FetchFailed.message
    /\ Count(lastEvent.effects, "fetchWeatherData") = 1
    /\ loads = EmptyBag

\* The text is empty or holds only spaces.
IsBlank(text) == \A i \in 1..Len(text) : text[i] = 32

\* C28: a search whose text is empty or holds only spaces is turned down
\* before loading is signalled: it starts no fetch, calls neither showLoading
\* nor fetchWeatherData, and leaves the page, the current city, the current
\* unit, the snapshot and the stored history as they were.
C28_BlankSearchRejected ==
    [][(lastEvent'.handler = "handleSearch" /\ IsBlank(searchInput')) =>
           /\ lastEvent'.result \in {"ignored", "rejected"}
           /\ Count(lastEvent'.effects, "showLoading") = 0
           /\ Count(lastEvent'.effects, "fetchWeatherData") = 0
           /\ loads' = loads
           /\ view' = view
           /\ <<currentCity, currentUnit, currentWeatherData>>'
                 = <<currentCity, currentUnit, currentWeatherData>>
           /\ localStorage' = localStorage
           /\ ~lastEvent'.historyChanged]_vars

\* A search for " " was turned down while a city was loaded and the history
\* held it.
C28_Witness ==
    /\ lastEvent.handler = "handleSearch"
    /\ searchInput = <<32>>
    /\ lastEvent.result = "ignored"
    /\ currentCity # EmptyString
    /\ Persisted # <<>>
    /\ loads = EmptyBag

\* C29: removing a recent location writes the store and renders the list of
\* recent locations again, and nothing else: it starts no fetch and leaves
\* the calls in flight, the current city, the current unit, the snapshot and
\* the rest of the page as they were.
C29_RemovalOnlyTouchesHistory ==
    [][lastEvent'.handler = "handleLocationRemove" =>
           /\ lastEvent'.effects = <<"removeFromHistoryByIndex", "renderRecentLocations">>
           /\ loads' = loads
           /\ <<currentCity, currentUnit, currentWeatherData>>'
                 = <<currentCity, currentUnit, currentWeatherData>>
           /\ view' = [view EXCEPT !.recent = view'.recent]
           /\ \A k \in STORAGE_KEYS \ {SEARCH_HISTORY} :
                 localStorage'[k] = localStorage[k]
           /\ storeFault = "none" =>
                 /\ Len(view'.recent) = Len(view.recent) - 1
                 /\ localStorage'[SEARCH_HISTORY] = JSONstringify(view'.recent)]_vars

\* The only recent location was removed on a working store while its city
\* was the loaded one.
C29_Witness ==
    /\ lastEvent.handler = "handleLocationRemove"
    /\ storeFault = "none"
    /\ currentCity # EmptyString
    /\ currentWeatherData.label = currentCity
    /\ view.recent = <<>>
    /\ Persisted = <<>>

\* C30: while the current-conditions and forecast requests of a fetch are in
\* flight, a geocoding request has been issued and answered, and the two
\* requests name the place by the coordinates of its first candidate, not by
\* the text of the query.
C30_GeocodedBeforeWeather ==
    \A load \in BagToSet(loads) :
        /\ lastIssued > 0
        /\ suggestReqs = {}
        /\ \A l \in Legs : DOMAIN load.requests[l] = {"lat", "lon", "units"}

-----------------------------------------------------------------------------
(* Properties of overlapping loads and of the loading state.               *)

\* C31: the current conditions on the page are rendered in the unit their
\* data were fetched in, whatever the user toggled while the fetch was in
\* flight.
C31_RenderedInFetchedUnit ==
    view.current.data # NoData => view.current.unit = view.current.data.unit

\* C32: once no fetch is in flight, and the fetch issued last and the
\* continuation that ran last have both succeeded, the current city, the
\* snapshot, the rendered data and the first recent location are those of
\* the fetch that was issued last.
C32_LastIssuedWins ==
    (/\ loads = EmptyBag
     /\ lastEvent.result = "succeeded"
     /\ lastEvent.issuedLast.outcome = "succeeded"
     /\ storeFault = "none") =>
        LET place == Resolved(lastEvent.issuedLast.city)
            label == cityLabel(place.name, place.country)
        IN  /\ currentCity = label
            /\ currentWeatherData.label = label
            /\ view.current.data.label = label
            /\ view.recent # <<>>
            /\ view.recent[1] = label

\* C33: when every fetch settles, a page that signals loading eventually
\* signals loading complete.
C33_LoadingEnds == view.loading ~> ~view.loading

\* C34: while a fetch is in flight the page signals loading: loading complete
\* is not signalled until the last of the overlapping fetches has settled.
C34_LoadingWhileInFlight == loads # EmptyBag => view.loading

-----------------------------------------------------------------------------
(* Properties that relate the controller and the store.                    *)

\* C35: on a working store, once init has run and between any two handlers,
\* the unit that getPreferredUnit reads from the store is the current unit.
C35_StoredUnitIsCurrent ==
    (started /\ storeFault = "none") =>
        /\ ~getPreferredUnit(localStorage, storeFault).threw
        /\ getPreferredUnit(localStorage, storeFault).ret = currentUnit

\* The fetch started by a unit toggle failed: the unit stays the toggled one,
\* in the controller and in the store.
C35_Witness ==
    /\ started
    /\ storeFault = "none"
    /\ lastEvent.result = "failed"
    /\ lastEvent.changed
    /\ currentUnit = "imperial"
    /\ localStorage[PREFERRED_UNIT] = PlainText("imperial")

\* The operations of storage.js that change the history.
HistoryWriters ==
    {"saveToHistory", "removeFromHistory", "removeFromHistoryByIndex", "clearHistory"}

\* C36: the list an operation that changes the history returns is the list
\* that a getHistory call made right after it returns, whatever the store's
\* fault.
C36_ReturnedIsPersisted ==
    lastCall.op \in HistoryWriters =>
        ret = getHistory(localStorage, storeFault).ret

\* The list without its entry at the 0-based position index.
DeletedAt(list, index) ==
    [i \in 1..(Len(list) - 1) |-> IF i <= index THEN list[i] ELSE list[i + 1]]

\* C37: on a store whose writes succeed, removeFromHistoryByIndex with an
\* index of an entry returns, and leaves persisted, the previous history
\* without the entry at that position: one entry fewer, the others in their
\* previous order.
C37_RemovesThatEntry ==
    (/\ lastCall.op = "removeFromHistoryByIndex"
     /\ ~SetItemThrows(storeFault)
     /\ lastCall.arg >= 0
     /\ lastCall.arg < Len(lastCall.before)) =>
        /\ ~threw
        /\ Len(ret) = Len(lastCall.before) - 1
        /\ ret = DeletedAt(lastCall.before, lastCall.arg)
        /\ localStorage[SEARCH_HISTORY] = JSONstringify(ret)
        /\ Persisted = ret

\* removeFromHistoryByIndex(1) took "B" out of "A", "B", "a".
C37_Witness ==
    /\ lastCall.op = "removeFromHistoryByIndex"
    /\ lastCall.arg = 1
    /\ lastCall.before = <<<<65>>, <<66>>, <<97>>>>
    /\ storeFault = "none"
    /\ ret = <<<<65>>, <<97>>>>

\* C38: saveToHistory is idempotent.  Right after saveToHistory(city) with a
\* valid city, a second saveToHistory(city) returns the same list and leaves
\* the store as the first call left it.
C38_RecordTwiceIsOnce ==
    (lastCall.op = "saveToHistory" /\ lastCall.arg # EmptyString) =>
        LET twice == saveToHistory(localStorage, storeFault, lastCall.arg)
        IN  /\ ~twice.threw
            /\ twice.ls = localStorage
            /\ twice.ret = ret

\* A location that was not in a full history was recorded: it is first and
\* the oldest entry was dropped.
C38_Witness ==
    /\ lastCall.op = "saveToHistory"
    /\ Len(lastCall.before) = maxHistoryItems
    /\ Matches(lastCall.before, lastCall.arg) = {}
    /\ Len(Persisted) = maxHistoryItems
    /\ Persisted[1] = lastCall.arg
    /\ Persisted[maxHistoryItems] = lastCall.before[maxHistoryItems - 1]

=============================================================================
